---- MODULE Spec2Model ----
(***************************************************************************)
(* State-machine model of src/main.py (the "Doctor AI" consultation bot):  *)
(* the per-user FSM kept in aiogram's MemoryStorage, the conversation      *)
(* handlers with their suspension points, and the two tables of the        *)
(* SQLAlchemy store.                                                       *)
(*                                                                         *)
(* Library behaviour the handlers rely on, as modelled here:               *)
(*  - dp.start_polling handles every update in its own asyncio task and    *)
(*    the dispatcher is built without an events-isolation lock (line 85),  *)
(*    so handlers of one user interleave at every await that really        *)
(*    suspends (transport, AI and store calls).  MemoryStorage's own       *)
(*    methods never suspend.                                               *)
(*  - MemoryStorage.get_data returns a shallow copy of the data dict, so   *)
(*    the list under 'conversation_history' is shared by reference between *)
(*    the storage and every coroutine that read it.  Lists are therefore   *)
(*    heap objects (variable lists) and the dict holds a reference.        *)
(*  - async_session() opens a new Session; leaving its "async with" block  *)
(*    closes it and detaches every object it loaded.  commit() writes only *)
(*    the objects attached to the session it is called on.                 *)
(***************************************************************************)
EXTENDS Integers, Sequences, FiniteSets, TLC

\* ------------------------------------------------------------------ bounds
NumUsers == 2          \* user ids 1..NumUsers
MaxDay == 1            \* calendar days 0..MaxDay
MaxQuestions == 2      \* free-text messages delivered in a run of Spec
MaxTurns == 4          \* free-text messages delivered in a run of SpecHistory
MaxQuotaTurns == 11    \* free-text messages delivered in a run of SpecQuota
MaxRated == 2          \* free-text messages delivered in a run of SpecFeedback
MaxLegacyTurns == 1    \* free-text messages delivered in a run of SpecLegacy
MaxInflight == 2       \* overlapping handle_conversation coroutines per user
MaxPending == 2        \* callback queries delivered and not yet processed
MaxStatTurns == 2      \* free-text messages delivered in a run of SpecStats
MaxHangTurns == 2      \* free-text messages delivered in a run of SpecHang
MaxCommitTurns == 2    \* free-text messages delivered in a run of SpecCommit
MaxPairTurns == 2      \* free-text messages delivered in a run of SpecIsolation
MaxStarts == 2         \* overlapping start_command coroutines per user
MaxFirstTurns == 1     \* free-text messages delivered in a run of SpecFirstContact
MaxRepickTurns == 2    \* free-text messages delivered in a run of SpecRepick
MaxContextTurns == 5   \* free-text messages delivered in a run of SpecContext
MaxMenuTurns == 2      \* free-text messages delivered in a run of SpecMenu
MaxCategoryTurns == 1  \* free-text messages delivered in a run of SpecCategory
MaxOwnerTurns == 2     \* free-text messages delivered in a run of SpecOwnership

\* ------------------------------------------------------- program constants
MAX_DAILY_CONSULTATIONS == 10
HISTORY_WINDOW == 3
WEEK_AGO == 7           \* timedelta(days=7)
WEEK_DAYS == 7          \* range(7)
NULL == -1             \* None / SQL NULL of a nullable column or a missing key

Users == 1..NumUsers
Days == 0..MaxDay
Scores == 1..5

\* message texts (button captions without their emoji)
START == "/start"
SAVOL_BERISH == "Savol berish"
ORQAGA == "Orqaga"
ASOSIY_MENYU == "Asosiy menyu"
KATEGORIYANI_OZGARTIRISH == "Kategoriyani o'zgartirish"

\* the categories dict of handle_category_selection: caption -> category
categories ==
    [label \in {"Umumiy maslahat", "Dori-darmonlar", "Kasalxonalar", "Mutaxassislar"} |->
        CASE label = "Umumiy maslahat" -> "general"
          [] label = "Dori-darmonlar" -> "medicine"
          [] label = "Kasalxonalar" -> "hospitals"
          [] OTHER -> "specialists"]

CategoryLabels == DOMAIN categories

\* the n-th free-text message of a run; every message has its own text
QuestionText(n) == "q" \o ToString(n)

\* replies the handlers send
QUOTA_EXCEEDED == "Siz bugun ko'p savol berdingiz"
CHOOSE_CATEGORY == "Qaysi yo'nalishda maslahat olmoqchisiz?"
NEW_CATEGORY == "Yangi kategoriyani tanlang"
BACK_TO_MENU == "Asosiy menyuga qaytdingiz"
INVALID_CATEGORY == "Noto'g'ri kategoriya"
SESSION_STARTED == "savol-javob sessiyasi boshlandi"
RESTART_ERROR == "Xatolik yuz berdi. Iltimos, qaytadan boshlang."
GENERIC_ERROR == "Xatolik yuz berdi. Iltimos, qaytadan urinib ko'ring."
WELCOME == "Assalomu alaykum"
THANKS == "Rahmat! Sizning bahoyingiz"
STATISTICS == "Statistika: ..."
USER_NOT_FOUND == "Foydalanuvchi ma'lumotlari topilmadi."
NO_REPLY == "(none)"

\* what generate_response returns
AI_ANSWER == "response + disclaimer"
AI_FALLBACK == "Kechirasiz, texnik nosozlik yuz berdi. Iltimos, keyinroq urinib ko'ring."

\* FSM states as MemoryStorage holds them
IDLE == "None"
CATEGORY_SELECTION == "ConsultationStates:category_selection"
CONVERSATION == "ConsultationStates:conversation"

VARIABLES
    fsm,            \* [Users -> state]            MemoryStorage record .state
    data,           \* [Users -> [category, conversation_history]]  record .data
    lists,          \* [Users -> [ListIds -> Seq(pair)]]  the list objects alive for a user
    tasks,          \* handle_conversation coroutines suspended at an await
    users,          \* [Users -> row | NoRow]      table users
    consultations,  \* Seq(row), id = index        table consultations
    keyboards,      \* consultation ids whose rating keyboard is on screen
    callbacks,      \* callback queries delivered, not yet processed
    today,          \* the current calendar day
    asked,          \* number of free-text messages delivered so far
    reply,          \* [Users -> last text sent to the user]
    stats,          \* [Users -> the last statistics message built for the user]
    starts          \* start_command coroutines suspended inside add_or_update_user

vars == <<fsm, data, lists, tasks, users, consultations, keyboards, callbacks,
          today, asked, reply, stats, starts>>


\* ------------------------------------------------------------------- store
\* A row of table users (lines 43-59); present = FALSE stands for "no row",
\* which get_user returns as None.
NoRow ==
    [present |-> FALSE, consultation_count |-> 0, daily_consultation_count |-> 0,
     last_consultation_date |-> NULL]

\* User(user_id=...) of line 138 once inserted: column defaults 0, 0, NULL
NewUser ==
    [present |-> TRUE, consultation_count |-> 0, daily_consultation_count |-> 0,
     last_consultation_date |-> NULL]

\* get_user: the row, loaded by a session of its own that is closed before the
\* caller sees the object, so the caller holds a detached copy
get_user(tbl, u) == tbl[u]

\* session.commit(): writes the objects attached to that session, nothing else.
\* attached is a function from user ids (those attached) to their rows.
commit(tbl, attached) ==
    [x \in Users |-> IF x \in DOMAIN attached THEN attached[x] ELSE tbl[x]]

\* the objects that the session opened on line 153 tracks when line 159 commits:
\* user came from get_user (line 154), not from this session, and is never
\* added to it
count_session(u, user) == << >>

\* update_consultation_count (lines 151-159)
update_consultation_count(tbl, u, now) ==
    LET user == get_user(tbl, u)
        bumped == [user EXCEPT !.consultation_count = @ + 1,
                               !.daily_consultation_count = @ + 1,
                               !.last_consultation_date = now]
    IN IF user.present THEN commit(tbl, count_session(u, bumped)) ELSE tbl

\* add_or_update_user (lines 133-149): a new User is session.add-ed and inserted;
\* an existing one is a detached copy whose changes no session writes
add_or_update_user(tbl, u) ==
    LET db_user == get_user(tbl, u)
    IN IF ~db_user.present THEN commit(tbl, (u :> NewUser)) ELSE commit(tbl, << >>)

\* save_consultation that files every new record as already resolved
save_consultation_resolved(tbl, u, category, question, response, now) ==
    Append(tbl, [user_id |-> u, category |-> category, content |-> question,
                 response |-> response, created_at |-> now, resolved_at |-> NULL,
                 is_resolved |-> TRUE, feedback_score |-> NULL])

\* save_consultation (lines 161-168): the new row's id is its index
save_consultation(tbl, u, category, question, response, now) ==
    Append(tbl, [user_id |-> u, category |-> category, content |-> question,
                 response |-> response, created_at |-> now, resolved_at |-> NULL,
                 is_resolved |-> FALSE, feedback_score |-> NULL])

\* update_feedback that files every rating one star too low
update_feedback_off_by_one(tbl, consultation_id, score, now) ==
    IF consultation_id \in DOMAIN tbl
    THEN [tbl EXCEPT ![consultation_id] =
              [@ EXCEPT !.feedback_score = IF score > 1 THEN score - 1 ELSE score,
                        !.is_resolved = TRUE, !.resolved_at = now]]
    ELSE tbl

\* update_feedback (lines 170-179)
update_feedback(tbl, consultation_id, score, now) ==
    IF consultation_id \in DOMAIN tbl
    THEN [tbl EXCEPT ![consultation_id] =
              [@ EXCEPT !.feedback_score = score, !.is_resolved = TRUE,
                        !.resolved_at = now]]
    ELSE tbl

\* get_feedback_distribution without the feedback_score IS NOT NULL condition:
\* the rows without feedback form a bucket of their own
get_feedback_distribution_with_unrated(tbl, u) ==
    LET rated(s) == {i \in DOMAIN tbl : tbl[i].user_id = u /\ tbl[i].feedback_score = s}
        keys == {tbl[i].feedback_score : i \in {j \in DOMAIN tbl : tbl[j].user_id = u}}
    IN [s \in keys |-> Cardinality(rated(s))]

\* get_feedback_distribution (lines 209-216): {score: count} over the user's rows
\* whose feedback_score is not NULL
get_feedback_distribution(tbl, u) ==
    LET rated(s) == {i \in DOMAIN tbl : tbl[i].user_id = u /\ tbl[i].feedback_score = s}
        keys == {tbl[i].feedback_score :
                    i \in {j \in DOMAIN tbl : tbl[j].user_id = u /\ tbl[j].feedback_score # NULL}}
    IN [s \in keys |-> Cardinality(rated(s))]

\* get_weekly_activity (lines 193-207).  Time stamps are kept to the calendar
\* day: created_at holds the UTC day of datetime.utcnow() (line 165), and
\* local_today is the day of datetime.now() (line 196), the server's local
\* clock.  week_ago lies on day local_today - WEEK_AGO at the same time of day,
\* so the filter created_at >= week_ago (line 199) passes every row of a later
\* day and cuts every row of an earlier one; rows of that very day pass or not
\* by their time of day and are grouped under a date the loop of lines 204-206
\* never looks up.  The loop fills one entry per day local_today - i,
\* i = 0..WEEK_DAYS - 1, with daily_counts.get(date, 0).
get_weekly_activity(tbl, u, local_today) ==
    LET week_ago == local_today - WEEK_AGO
        rows(d) == {i \in DOMAIN tbl : /\ tbl[i].user_id = u
                                       /\ tbl[i].created_at > week_ago
                                       /\ tbl[i].created_at = d}
        daily_counts == [d \in {tbl[i].created_at :
                                   i \in {j \in DOMAIN tbl : /\ tbl[j].user_id = u
                                                             /\ tbl[j].created_at > week_ago}}
                            |-> Cardinality(rows(d))]
    IN [date \in {local_today - i : i \in 0..(WEEK_DAYS - 1)} |->
           IF date \in DOMAIN daily_counts THEN daily_counts[date] ELSE 0]

\* sum(feedback_dist.values()) (line 445)
RECURSIVE SumOver(_, _)
SumOver(f, keys) ==
    IF keys = {} THEN 0
    ELSE LET k == CHOOSE x \in keys : TRUE IN f[k] + SumOver(f, keys \ {k})

\* lines 443-449: the percentage of every bucket, (count / total) * 100 written
\* with one decimal, here in tenths of a percent rounded to the nearest; the
\* loop body runs once per bucket, so never when the distribution is empty
percentages(feedback_dist) ==
    LET total_feedback == SumOver(feedback_dist, DOMAIN feedback_dist)
    IN [score \in DOMAIN feedback_dist |->
           (2000 * feedback_dist[score] + total_feedback) \div (2 * total_feedback)]

\* ----------------------------------------------------------------- session
\* MemoryStorage data of a user with no keys (after state.clear()); 0 is a
\* missing 'conversation_history' key, any other value names a list object
EmptyData == [category |-> "", category_name |-> "", conversation_history |-> 0]

\* identities of the list objects of one user; an identity nothing refers to
\* is free and holds the empty list.  A user's data dict and coroutines refer
\* to at most MaxInflight + 1 lists, so a free identity always exists.
ListIds == 1..(MaxInflight + 2)

TasksOf(ts, u) == {t \in ts : t.user = u}

\* the lists a user's data dict or suspended coroutines refer to
Referenced(d, ts, u) ==
    {d[u].conversation_history} \cup {t.conversation_history : t \in TasksOf(ts, u)}

\* Python reclaims a list once nothing refers to it
Collect(ls, d, ts) ==
    [u \in Users |-> [i \in ListIds |-> IF i \in Referenced(d, ts, u) THEN ls[u][i] ELSE << >>]]

\* the identity of a list created now ([] on lines 328 and 359): the first
\* free one
NewListId(u) ==
    CHOOSE i \in ListIds :
        /\ i \notin Referenced(data, tasks, u)
        /\ \A j \in 1..(i - 1) : j \in Referenced(data, tasks, u)

\* a clear that empties the data of every user: a storage keyed by the bot
\* alone instead of by chat and user
ClearedData_of_all(d, u) == [x \in Users |-> EmptyData]

\* a clear that empties the data and leaves the FSM state as it is
ClearedState_kept(f, u) == f

\* state.clear(): set_state(None) and set_data({})
ClearedState(f, u) == [f EXCEPT ![u] = IDLE]
ClearedData(d, u) == [d EXCEPT ![u] = EmptyData]

\* state.update_data(conversation_history=h): the key is merged into whatever the
\* data dict holds at that moment
update_data(d, h) == [d EXCEPT !.conversation_history = h]

\* conversation_history[:3]: the oldest pairs instead of the newest
FirstPairs(h) ==
    SubSeq(h, 1, IF Len(h) > HISTORY_WINDOW THEN HISTORY_WINDOW ELSE Len(h))

\* conversation_history[-3:]
LastPairs(h) ==
    SubSeq(h, IF Len(h) > HISTORY_WINDOW THEN Len(h) - HISTORY_WINDOW + 1 ELSE 1, Len(h))

\* state_data.get('conversation_history', []) (line 359) for data dicts d and
\* list objects ls
HistoryOf(d, ls, u) ==
    IF d[u].conversation_history = 0 THEN << >>
    ELSE ls[u][d[u].conversation_history]

\* the history list the user's data dict holds now
History(u) == HistoryOf(data, lists, u)

\* no statistics message has been built yet
NoStats == [shown |-> FALSE, weekly |-> << >>, feedback |-> << >>, percentage |-> << >>]

Init ==
    /\ fsm = [u \in Users |-> IDLE]
    /\ data = [u \in Users |-> EmptyData]
    /\ lists = [u \in Users |-> [i \in ListIds |-> << >>]]
    /\ tasks = {}
    /\ users = [u \in Users |-> NoRow]
    /\ consultations = << >>
    /\ keyboards = {}
    /\ callbacks = {}
    /\ today = 0
    /\ asked = 0
    /\ reply = [u \in Users |-> NO_REPLY]
    /\ stats = [u \in Users |-> NoStats]
    /\ starts = {}

\* midnight passes
Tick(maxDay) ==
    /\ today < maxDay
    /\ today' = today + 1
    /\ UNCHANGED <<fsm, data, lists, tasks, users, consultations, keyboards, callbacks,
                   asked, reply>>
    /\ UNCHANGED <<stats, starts>>

\* start_command (lines 255-277), routed first, in every state
start_command(u) ==
    /\ users' = add_or_update_user(users, u)
    /\ fsm' = ClearedState(fsm, u)
    /\ data' = ClearedData(data, u)
    /\ reply' = [reply EXCEPT ![u] = WELCOME]
    /\ lists' = Collect(lists, data', tasks)
    /\ UNCHANGED <<tasks, consultations, keyboards, callbacks, today, asked>>
    /\ UNCHANGED <<stats, starts>>

\* start_command in the two steps add_or_update_user is suspended between.
\* Lines 259 and 136: get_user returns the row or None and the coroutine suspends
\* in session.commit() (line 148), with a new User added to its session when
\* there was no row (lines 137-141)
start_read(u, maxStarts) ==
    /\ Cardinality({s \in starts : s.user = u}) < maxStarts
    /\ starts' = starts \cup
          {[user |-> u, db_user |-> get_user(users, u),
            slot |-> CHOOSE n \in 1..maxStarts :
                        \A s \in starts : s.user = u => s.slot # n]}
    /\ UNCHANGED <<fsm, data, lists, tasks, users, consultations, keyboards, callbacks,
                   today, asked, reply, stats>>

\* lines 148 and 268-277: session.commit() returns and the state is cleared and
\* the welcome sent.  The INSERT of a new User violates the unique constraint of
\* users.user_id (line 46) when a row of that user has appeared since the read:
\* commit raises IntegrityError, and the except branch (lines 275-277) answers
\* without clearing the state.  ok = FALSE: the store call raises.
start_commit(s, ok) ==
    LET u == s.user
        inserting == ~s.db_user.present
    IN /\ s \in starts
       /\ starts' = starts \ {s}
       /\ IF ~ok \/ (inserting /\ users[u].present)
          THEN /\ reply' = [reply EXCEPT ![u] = GENERIC_ERROR]
               /\ UNCHANGED <<fsm, data, lists, users>>
          ELSE /\ users' = commit(users, IF inserting THEN (u :> NewUser) ELSE << >>)
               /\ fsm' = ClearedState(fsm, u)
               /\ data' = ClearedData(data, u)
               /\ reply' = [reply EXCEPT ![u] = WELCOME]
               /\ lists' = Collect(lists, data', tasks)
       /\ UNCHANGED <<tasks, consultations, keyboards, callbacks, today, asked, stats>>

\* ask_question without the return of line 303: the denial is sent and the
\* handler goes on to line 305
ask_question_without_return(u, ok) ==
    LET user == get_user(users, u)
    IN /\ IF ~ok \/ ~user.present
          THEN /\ reply' = [reply EXCEPT ![u] = GENERIC_ERROR]
               /\ fsm' = fsm
          ELSE /\ fsm' = [fsm EXCEPT ![u] = CATEGORY_SELECTION]
               /\ reply' = [reply EXCEPT ![u] =
                      IF user.daily_consultation_count >= MAX_DAILY_CONSULTATIONS
                      THEN QUOTA_EXCEEDED ELSE CHOOSE_CATEGORY]
       /\ UNCHANGED <<data, lists, tasks, users, consultations, keyboards, callbacks,
                      today, asked>>
       /\ UNCHANGED <<stats, starts>>

\* ask_question (lines 296-309): its filter is the text alone, and it is
\* registered before the two state handlers, so it runs in every state.
\* ok = FALSE: the store call raises.  user None: line 301 raises AttributeError.
ask_question(u, ok) ==
    LET user == get_user(users, u)
    IN /\ IF ~ok \/ ~user.present
          THEN /\ reply' = [reply EXCEPT ![u] = GENERIC_ERROR]
               /\ fsm' = fsm
          ELSE IF user.daily_consultation_count >= MAX_DAILY_CONSULTATIONS
          THEN /\ reply' = [reply EXCEPT ![u] = QUOTA_EXCEEDED]
               /\ fsm' = fsm
          ELSE /\ fsm' = [fsm EXCEPT ![u] = CATEGORY_SELECTION]
               /\ reply' = [reply EXCEPT ![u] = CHOOSE_CATEGORY]
       /\ UNCHANGED <<data, lists, tasks, users, consultations, keyboards, callbacks,
                      today, asked>>
       /\ UNCHANGED <<stats, starts>>

\* handle_category_selection (lines 312-340)
handle_category_selection(u, text) ==
    /\ fsm[u] = CATEGORY_SELECTION
    /\ text \notin {START, SAVOL_BERISH}
    /\ IF text = ORQAGA
       THEN /\ fsm' = ClearedState(fsm, u)
            /\ data' = ClearedData(data, u)
            /\ reply' = [reply EXCEPT ![u] = BACK_TO_MENU]
            /\ lists' = Collect(lists, data', tasks)
       ELSE IF text \notin DOMAIN categories
       THEN /\ reply' = [reply EXCEPT ![u] = INVALID_CATEGORY]
            /\ UNCHANGED <<fsm, data, lists>>
       ELSE /\ data' = [data EXCEPT ![u] =
                            [category |-> categories[text], category_name |-> text,
                             conversation_history |-> NewListId(u)]]
            /\ fsm' = [fsm EXCEPT ![u] = CONVERSATION]
            /\ reply' = [reply EXCEPT ![u] = SESSION_STARTED]
            /\ lists' = Collect([lists EXCEPT ![u][NewListId(u)] = << >>], data', tasks)
    /\ UNCHANGED <<tasks, users, consultations, keyboards, callbacks, today, asked>>
    /\ UNCHANGED <<stats, starts>>

\* handle_conversation (lines 343-366), up to its first suspension at
\* message.chat.do: the two control tokens, or a question, for which the coroutine
\* keeps category, category_name and a reference to the history list
handle_conversation(u, text, maxQuestions, maxInflight) ==
    /\ fsm[u] = CONVERSATION
    /\ text \notin {START, SAVOL_BERISH}
    /\ IF text = ASOSIY_MENYU
       THEN /\ fsm' = ClearedState(fsm, u)
            /\ data' = ClearedData(data, u)
            /\ reply' = [reply EXCEPT ![u] = BACK_TO_MENU]
            /\ lists' = Collect(lists, data', tasks)
            /\ UNCHANGED <<tasks, asked>>
       ELSE IF text = KATEGORIYANI_OZGARTIRISH
       THEN /\ fsm' = [fsm EXCEPT ![u] = CATEGORY_SELECTION]
            /\ reply' = [reply EXCEPT ![u] = NEW_CATEGORY]
            /\ UNCHANGED <<data, lists, tasks, asked>>
       ELSE /\ text = QuestionText(asked + 1)
            /\ asked < maxQuestions
            /\ Cardinality(TasksOf(tasks, u)) < maxInflight
            /\ asked' = asked + 1
            /\ IF data[u].category = ""
               THEN /\ fsm' = ClearedState(fsm, u)
                    /\ data' = ClearedData(data, u)
                    /\ reply' = [reply EXCEPT ![u] = RESTART_ERROR]
                    /\ lists' = Collect(lists, data', tasks)
                    /\ UNCHANGED tasks
               ELSE /\ tasks' = tasks \cup
                         {[user |-> u, question |-> text, pc |-> "typing",
                           category |-> data[u].category,
                           category_name |-> data[u].category_name,
                           conversation_history |->
                               IF data[u].conversation_history = 0 THEN NewListId(u)
                               ELSE data[u].conversation_history,
                           context |-> << >>, response |-> "", id |-> 0,
                           db_user |-> NoRow]}
                    /\ UNCHANGED <<fsm, data, lists, reply>>
    /\ UNCHANGED <<users, consultations, keyboards, callbacks, today>>
    /\ UNCHANGED <<stats, starts>>

\* lines 368-373: after the chat action returns, the context is built from the
\* last three pairs the list holds now, and the coroutine suspends at the AI call
build_context(t) ==
    /\ t \in tasks /\ t.pc = "typing"
    /\ tasks' = (tasks \ {t}) \cup
          {[t EXCEPT !.pc = "ai",
                     !.context = LastPairs(lists[t.user][t.conversation_history])]}
    /\ UNCHANGED <<fsm, data, lists, users, consultations, keyboards, callbacks,
                   today, asked, reply>>
    /\ UNCHANGED <<stats, starts>>

\* lines 368-371: the prompt context as the sequence of its parts: the line
\* 'Kategoriya: <category_name>', one 'Savol: ... Javob: ...' block per pair, and
\* the line 'Yangi savol: <message.text>'
context_string(category_name, pairs, text) ==
    <<[part |-> "Kategoriya", text |-> category_name]>>
    \o [k \in 1..Len(pairs) |->
           [part |-> "Savol/Javob", question |-> pairs[k].question, answer |-> pairs[k].answer]]
    \o <<[part |-> "Yangi savol", text |-> text]>>

\* generate_response (lines 99-114): the answer with the disclaimer, or, when the
\* vendor call raises, the fallback text as an ordinary return value
generate_response(ok) == IF ok THEN AI_ANSWER ELSE AI_FALLBACK

\* line 108: the vendor call never returns.  asyncio.to_thread is awaited
\* without a time limit (CONSULTATION_TIMEOUT, line 30, is read nowhere), so the
\* coroutine stays suspended at line 373 and no step of it is enabled again
ai_hangs(t) ==
    /\ t \in tasks /\ t.pc = "ai"
    /\ tasks' = (tasks \ {t}) \cup {[t EXCEPT !.pc = "hung"]}
    /\ UNCHANGED <<fsm, data, lists, users, consultations, keyboards, callbacks,
                   today, asked, reply, stats, starts>>

\* a bounded buffer: append, then keep the newest HISTORY_WINDOW pairs
append_evicting(h, question, response) ==
    LastPairs(Append(h, [question |-> question, answer |-> response]))

\* line 375: conversation_history.append(...)
append(h, question, response) == Append(h, [question |-> question, answer |-> response])

\* lines 373-376: generate_response returns; the pair is appended to the list the
\* coroutine holds and that list is stored under 'conversation_history'
append_history(t, ok) ==
    /\ t \in tasks /\ t.pc = "ai"
    /\ LET response == generate_response(ok)
           u == t.user
           h == t.conversation_history
       IN /\ data' = [data EXCEPT ![u] = update_data(@, h)]
          /\ tasks' = (tasks \ {t}) \cup {[t EXCEPT !.pc = "save", !.response = response]}
          /\ lists' = Collect([lists EXCEPT ![u][h] = append(@, t.question, response)],
                              data', tasks')
    /\ UNCHANGED <<fsm, users, consultations, keyboards, callbacks, today, asked, reply>>
    /\ UNCHANGED <<stats, starts>>

\* line 378: save_consultation returns the new row, or raises (ok = FALSE)
save_step(t, ok) ==
    /\ t \in tasks /\ t.pc = "save"
    /\ IF ok
       THEN /\ consultations' = save_consultation(consultations, t.user, t.category,
                                                  t.question, t.response, today)
            /\ tasks' = (tasks \ {t}) \cup
                  {[t EXCEPT !.pc = "count", !.id = Len(consultations) + 1]}
       ELSE /\ tasks' = (tasks \ {t}) \cup {[t EXCEPT !.pc = "except"]}
            /\ UNCHANGED consultations
    /\ UNCHANGED <<fsm, data, lists, users, keyboards, callbacks, today, asked, reply>>
    /\ UNCHANGED <<stats, starts>>

\* lines 379-393: update_consultation_count, then the answer and the rating
\* keyboard rate_<id>_1..5 are sent and the coroutine ends; or the store raises
count_step(t, ok) ==
    /\ t \in tasks /\ t.pc = "count"
    /\ IF ok
       THEN /\ users' = update_consultation_count(users, t.user, today)
            /\ reply' = [reply EXCEPT ![t.user] = t.response]
            /\ keyboards' = keyboards \cup {t.id}
            /\ tasks' = tasks \ {t}
       ELSE /\ tasks' = (tasks \ {t}) \cup {[t EXCEPT !.pc = "except"]}
            /\ UNCHANGED <<users, reply, keyboards>>
    /\ lists' = Collect(lists, data, tasks')
    /\ UNCHANGED <<fsm, data, consultations, callbacks, today, asked>>
    /\ UNCHANGED <<stats, starts>>

\* count_step in the two steps update_consultation_count is suspended between.
\* Lines 154-158: get_user returns, the counters of the object it returned are
\* raised, and the coroutine suspends in session.commit(); a missing row ends the
\* call, and lines 381-393 send the answer and the rating keyboard
count_read(t, ok) ==
    LET user == get_user(users, t.user)
    IN /\ t \in tasks /\ t.pc = "count"
       /\ IF ~ok
          THEN /\ tasks' = (tasks \ {t}) \cup {[t EXCEPT !.pc = "except"]}
               /\ UNCHANGED <<reply, keyboards>>
          ELSE IF user.present
          THEN /\ tasks' = (tasks \ {t}) \cup
                     {[t EXCEPT !.pc = "commit",
                                !.db_user = [user EXCEPT
                                                !.consultation_count = @ + 1,
                                                !.daily_consultation_count = @ + 1,
                                                !.last_consultation_date = today]]}
               /\ UNCHANGED <<reply, keyboards>>
          ELSE /\ reply' = [reply EXCEPT ![t.user] = t.response]
               /\ keyboards' = keyboards \cup {t.id}
               /\ tasks' = tasks \ {t}
       /\ lists' = Collect(lists, data, tasks')
       /\ UNCHANGED <<fsm, data, users, consultations, callbacks, today, asked,
                      stats, starts>>

\* line 159 and lines 381-393: session.commit() returns, then the answer and the
\* rating keyboard are sent; or the commit raises
count_commit(t, ok) ==
    /\ t \in tasks /\ t.pc = "commit"
    /\ IF ok
       THEN /\ users' = commit(users, count_session(t.user, t.db_user))
            /\ reply' = [reply EXCEPT ![t.user] = t.response]
            /\ keyboards' = keyboards \cup {t.id}
            /\ tasks' = tasks \ {t}
       ELSE /\ tasks' = (tasks \ {t}) \cup {[t EXCEPT !.pc = "except"]}
            /\ UNCHANGED <<users, reply, keyboards>>
    /\ lists' = Collect(lists, data, tasks')
    /\ UNCHANGED <<fsm, data, consultations, callbacks, today, asked, stats, starts>>

\* lines 395-398: the except branch answers and clears the user's state and data
except_step(t) ==
    /\ t \in tasks /\ t.pc = "except"
    /\ reply' = [reply EXCEPT ![t.user] = GENERIC_ERROR]
    /\ fsm' = ClearedState(fsm, t.user)
    /\ data' = ClearedData(data, t.user)
    /\ tasks' = tasks \ {t}
    /\ lists' = Collect(lists, data', tasks')
    /\ UNCHANGED <<users, consultations, keyboards, callbacks, today, asked>>
    /\ UNCHANGED <<stats, starts>>

\* the user taps a star of a rating keyboard that is on screen: the transport
\* delivers callback data rate_<id>_<score>
tap(consultation_id, score, maxPending) ==
    /\ consultation_id \in keyboards
    /\ Cardinality(callbacks) < maxPending
    /\ callbacks' = callbacks \cup
          {[id |-> consultation_id, score |-> score,
            from_user |-> consultations[consultation_id].user_id]}
    /\ UNCHANGED <<fsm, data, lists, tasks, users, consultations, keyboards, today,
                   asked, reply>>
    /\ UNCHANGED <<stats, starts>>

\* a star of a rating keyboard is tapped by user a, who is not the user the
\* keyboard was sent for: no handler filters on the chat type, and in a chat
\* with several members every member sees and can tap the keyboard under an
\* answer.  The callback query carries the same data and a's id as from_user.
tap_of_other(a, consultation_id, score, maxPending) ==
    /\ consultation_id \in keyboards
    /\ a # consultations[consultation_id].user_id
    /\ Cardinality(callbacks) < maxPending
    /\ callbacks' = callbacks \cup
          {[id |-> consultation_id, score |-> score, from_user |-> a]}
    /\ UNCHANGED <<fsm, data, lists, tasks, users, consultations, keyboards, today,
                   asked, reply>>
    /\ UNCHANGED <<stats, starts>>

\* process_feedback (lines 401-409): update_feedback, then edit_text replaces the
\* keyboard message; ok = FALSE: the store raises and the error text replaces it
process_feedback(cb, ok) ==
    /\ cb \in callbacks
    /\ callbacks' = callbacks \ {cb}
    /\ consultations' = IF ok THEN update_feedback(consultations, cb.id, cb.score, today)
                        ELSE consultations
    /\ keyboards' = keyboards \ {cb.id}
    /\ reply' = [reply EXCEPT ![consultations[cb.id].user_id] =
                     IF ok THEN THANKS ELSE GENERIC_ERROR]
    /\ UNCHANGED <<fsm, data, lists, tasks, users, today, asked>>
    /\ UNCHANGED <<stats, starts>>

\* the calendar day of datetime.now(), the server's local clock, when the UTC
\* clock stands on day d: the same day, or its neighbour when the zone is
\* behind or ahead of UTC and the time is close enough to midnight
LocalDays(d) == {d - 1, d, d + 1}

\* show_statistics (lines 412-467).  Its filter is the text alone and it is
\* registered after the two state handlers, which take every message of a user
\* in category_selection or conversation: it runs for a user in no state.
\* ok = FALSE: a store call raises.
show_statistics(u, local_today, ok) ==
    LET user == get_user(users, u)
        weekly_activity == get_weekly_activity(consultations, u, local_today)
        feedback_dist == get_feedback_distribution(consultations, u)
    IN /\ fsm[u] = IDLE
       /\ IF ~ok
          THEN /\ reply' = [reply EXCEPT ![u] = GENERIC_ERROR]
               /\ stats' = stats
          ELSE IF ~user.present
          THEN /\ reply' = [reply EXCEPT ![u] = USER_NOT_FOUND]
               /\ stats' = stats
          ELSE /\ reply' = [reply EXCEPT ![u] = STATISTICS]
               /\ stats' = [stats EXCEPT ![u] =
                      [shown |-> TRUE, weekly |-> weekly_activity,
                       feedback |-> feedback_dist,
                       percentage |-> IF DOMAIN feedback_dist # {}
                                      THEN percentages(feedback_dist) ELSE << >>]]
       /\ UNCHANGED <<fsm, data, lists, tasks, users, consultations, keyboards,
                      callbacks, today, asked, starts>>

\* --------------------------------------------------------- specifications
\* The conversation of one user: overlapping turns, failing AI and store calls.
Solo == {1}
Pair == {1, 2}
SelectionTexts == {"Umumiy maslahat", ORQAGA, "other"}
ConversationTexts == {ASOSIY_MENYU, KATEGORIYANI_OZGARTIRISH, QuestionText(asked + 1)}

Next ==
    \/ \E u \in Solo : start_command(u)
    \/ \E u \in Solo, ok \in BOOLEAN : ask_question(u, ok)
    \/ \E u \in Solo, text \in SelectionTexts : handle_category_selection(u, text)
    \/ \E u \in Solo, text \in ConversationTexts :
          handle_conversation(u, text, MaxQuestions, MaxInflight)
    \/ \E t \in tasks : build_context(t)
    \/ \E t \in tasks, ok \in BOOLEAN : append_history(t, ok)
    \/ \E t \in tasks, ok \in BOOLEAN : save_step(t, ok)
    \/ \E t \in tasks, ok \in BOOLEAN : count_step(t, ok)
    \/ \E t \in tasks : except_step(t)

Spec == Init /\ [][Next]_vars

\* One long conversation, one turn at a time; the AI call may fail.
NextHistory ==
    \/ \E u \in Solo : start_command(u)
    \/ \E u \in Solo : ask_question(u, TRUE)
    \/ \E u \in Solo, text \in SelectionTexts : handle_category_selection(u, text)
    \/ \E u \in Solo, text \in ConversationTexts : handle_conversation(u, text, MaxTurns, 1)
    \/ \E t \in tasks : build_context(t)
    \/ \E t \in tasks, ok \in BOOLEAN : append_history(t, ok)
    \/ \E t \in tasks : save_step(t, TRUE)
    \/ \E t \in tasks : count_step(t, TRUE)

SpecHistory == Init /\ [][NextHistory]_vars

\* A user's day: more questions than the daily quota, no failing call.
NextQuota ==
    \/ Tick(MaxDay)
    \/ \E u \in Solo : start_command(u)
    \/ \E u \in Solo : ask_question(u, TRUE)
    \/ \E u \in Solo, text \in SelectionTexts : handle_category_selection(u, text)
    \/ \E u \in Solo, text \in ConversationTexts :
          handle_conversation(u, text, MaxQuotaTurns, 1)
    \/ \E t \in tasks : build_context(t)
    \/ \E t \in tasks : append_history(t, TRUE)
    \/ \E t \in tasks : save_step(t, TRUE)
    \/ \E t \in tasks : count_step(t, TRUE)

SpecQuota == Init /\ [][NextQuota]_vars

\* Answered questions and their ratings, one callback query at a time.
NextFeedback ==
    \/ \E u \in Solo : start_command(u)
    \/ \E u \in Solo : ask_question(u, TRUE)
    \/ \E u \in Solo, text \in SelectionTexts : handle_category_selection(u, text)
    \/ \E u \in Solo, text \in ConversationTexts : handle_conversation(u, text, MaxRated, 1)
    \/ \E t \in tasks : build_context(t)
    \/ \E t \in tasks : append_history(t, TRUE)
    \/ \E t \in tasks : save_step(t, TRUE)
    \/ \E t \in tasks : count_step(t, TRUE)
    \/ \E c \in keyboards, s \in Scores : tap(c, s, 1)
    \/ \E cb \in callbacks, ok \in BOOLEAN : process_feedback(cb, ok)

SpecFeedback == Init /\ [][NextFeedback]_vars

\* Ratings tapped in quick succession: several callback queries of one
\* keyboard are delivered before the first is answered.
NextDoubleTap ==
    \/ \E u \in Solo : start_command(u)
    \/ \E u \in Solo : ask_question(u, TRUE)
    \/ \E u \in Solo, text \in SelectionTexts : handle_category_selection(u, text)
    \/ \E u \in Solo, text \in ConversationTexts : handle_conversation(u, text, MaxRated, 1)
    \/ \E t \in tasks : build_context(t)
    \/ \E t \in tasks : append_history(t, TRUE)
    \/ \E t \in tasks : save_step(t, TRUE)
    \/ \E t \in tasks : count_step(t, TRUE)
    \/ \E c \in keyboards, s \in Scores : tap(c, s, MaxPending)
    \/ \E cb \in callbacks, ok \in BOOLEAN : process_feedback(cb, ok)

SpecDoubleTap == Init /\ [][NextDoubleTap]_vars

\* The store outlives the process: init_db (lines 122-125) creates missing tables
\* and keeps every row the database at DATABASE_URL already holds.  The rows of
\* table users are therefore an input of a run: besides no row and a new row, a
\* row whose daily counter stands at the quota, last counted on day 0.  (No
\* handler of this program writes such a counter, see count_session; line 301
\* reads it all the same.)
LegacyRows ==
    {NoRow, NewUser,
     [present |-> TRUE, consultation_count |-> MAX_DAILY_CONSULTATIONS,
      daily_consultation_count |-> MAX_DAILY_CONSULTATIONS, last_consultation_date |-> 0]}

InitLegacy ==
    /\ fsm = [u \in Users |-> IDLE]
    /\ data = [u \in Users |-> EmptyData]
    /\ lists = [u \in Users |-> [i \in ListIds |-> << >>]]
    /\ tasks = {}
    /\ users \in [Users -> LegacyRows]
    /\ consultations = << >>
    /\ keyboards = {}
    /\ callbacks = {}
    /\ today = 0
    /\ asked = 0
    /\ reply = [u \in Users |-> NO_REPLY]
    /\ stats = [u \in Users |-> NoStats]
    /\ starts = {}

NextLegacy ==
    \/ Tick(MaxDay)
    \/ \E u \in Users : start_command(u)
    \/ \E u \in Users, ok \in BOOLEAN : ask_question(u, ok)
    \/ \E u \in Users, text \in SelectionTexts : handle_category_selection(u, text)
    \/ \E u \in Users, text \in ConversationTexts :
          handle_conversation(u, text, MaxLegacyTurns, 1)
    \/ \E t \in tasks : build_context(t)
    \/ \E t \in tasks : append_history(t, TRUE)
    \/ \E t \in tasks : save_step(t, TRUE)
    \/ \E t \in tasks : count_step(t, TRUE)

SpecLegacy == InitLegacy /\ [][NextLegacy]_vars

\* ------------------------------------------------------------------ claims
\* a user's consultations created on day d
ExchangesOn(u, d) ==
    {i \in DOMAIN consultations :
        consultations[i].user_id = u /\ consultations[i].created_at = d}

\* C1: a user never has more than MAX_DAILY_CONSULTATIONS completed exchanges
\* (Consultation records) on one calendar day, however the questions are sent.
C1_DailyQuotaCap ==
    \A u \in Users, d \in Days : Cardinality(ExchangesOn(u, d)) <= MAX_DAILY_CONSULTATIONS

C4_AIFailureLeavesNoTrace ==
    /\ \A u \in Users, i \in ListIds :
          \A k \in 1..Len(lists[u][i]) : lists[u][i][k].answer # AI_FALLBACK
    /\ \A c \in DOMAIN consultations : consultations[c].response # AI_FALLBACK

\* C5: a turn whose AI call and store writes all succeed leaves the persisted
\* consultation_count and daily_consultation_count each one greater.
C5_TurnCountsOnce ==
    [][\A t \in tasks :
          (t.response = AI_ANSWER /\ count_step(t, TRUE))
          => /\ users'[t.user].consultation_count = users[t.user].consultation_count + 1
             /\ users'[t.user].daily_consultation_count =
                    users[t.user].daily_consultation_count + 1]_vars

\* position of the pair a turn appended to the list it holds (0: none)
PairIndex(t) ==
    LET h == lists[t.user][t.conversation_history]
        at == {k \in 1..Len(h) : h[k].question = t.question}
    IN IF at = {} THEN 0 ELSE CHOOSE k \in at : TRUE

\* C6: turns of one user are serial: the pair stored just before a turn's own
\* pair was part of that turn's prompt context.
C6_SerialTurns ==
    \A t \in tasks :
        PairIndex(t) > 1
        => \E k \in 1..Len(t.context) :
              t.context[k] = lists[t.user][t.conversation_history][PairIndex(t) - 1]

\* C7: the FSM state of a user changes only along the five transitions, each on
\* its own input (told by the reply the handler sends); any other message leaves
\* it unchanged.  Stated for the messages of the three FSM handlers: a step of
\* start_command (the /start command, which answers WELCOME) is left out.
C7_ClosedTransitions ==
    [][\A u \in Users :
          (fsm'[u] # fsm[u] /\ ~start_command(u))
          => \/ fsm[u] = IDLE /\ fsm'[u] = CATEGORY_SELECTION
                /\ reply'[u] = CHOOSE_CATEGORY
             \/ fsm[u] = CATEGORY_SELECTION /\ fsm'[u] = IDLE
                /\ reply'[u] = BACK_TO_MENU
             \/ fsm[u] = CATEGORY_SELECTION /\ fsm'[u] = CONVERSATION
                /\ reply'[u] = SESSION_STARTED
             \/ fsm[u] = CONVERSATION /\ fsm'[u] = IDLE
                /\ reply'[u] = BACK_TO_MENU
             \/ fsm[u] = CONVERSATION /\ fsm'[u] = CATEGORY_SELECTION
                /\ reply'[u] = NEW_CATEGORY]_vars

\* the list a turn holds, without the pair of that turn
WithoutPairOf(t) ==
    SelectSeq(lists[t.user][t.conversation_history], LAMBDA p : p.question # t.question)

\* C8: when the AI call of a turn succeeded and a store write of it fails, the
\* user gets the generic failure text and the session history is again what it
\* was before the turn.  Stated for a turn that is the user's only one in flight
\* and whose list is still the one the session holds.
C8_RollbackOnStoreFailure ==
    [][\A t \in tasks :
          (/\ t.response = AI_ANSWER
           /\ TasksOf(tasks, t.user) = {t}
           /\ data[t.user].conversation_history = t.conversation_history
           /\ except_step(t))
          => /\ reply'[t.user] = GENERIC_ERROR
             /\ HistoryOf(data', lists', t.user) = WithoutPairOf(t)]_vars

\* C9: once a Consultation has a feedback_score, its feedback fields never change.
C9_FeedbackSetOnce ==
    [][\A c \in DOMAIN consultations :
          consultations[c].feedback_score # NULL
          => /\ consultations'[c].feedback_score = consultations[c].feedback_score
             /\ consultations'[c].is_resolved = consultations[c].is_resolved
             /\ consultations'[c].resolved_at = consultations[c].resolved_at]_vars

\* the count of bucket s of a feedback distribution
Bucket(dist, s) == IF s \in DOMAIN dist THEN dist[s] ELSE 0

\* C10: a feedback submission (c, s) for a consultation without feedback marks it
\* resolved with score s and moves it into bucket s of its owner's feedback
\* distribution: that bucket grows by one, the others keep their counts.
C10_FeedbackRoundTrip ==
    [][\A cb \in callbacks :
          (consultations[cb.id].feedback_score = NULL /\ process_feedback(cb, TRUE))
          => LET owner == consultations[cb.id].user_id
                 before == get_feedback_distribution(consultations, owner)
                 after == get_feedback_distribution(consultations', owner)
             IN /\ consultations'[cb.id].is_resolved
                /\ consultations'[cb.id].feedback_score = cb.score
                /\ Bucket(after, cb.score) = Bucket(before, cb.score) + 1
                /\ \A s \in Scores \ {cb.score} : Bucket(after, s) = Bucket(before, s)
                /\ DOMAIN after \subseteq Scores]_vars

\* C10 witness: a rated consultation, counted in its owner's distribution, next
\* to one of the same owner that has no feedback
C10_Rated ==
    \E c, e \in DOMAIN consultations :
        /\ consultations[c].is_resolved
        /\ consultations[c].feedback_score \in Scores
        /\ consultations[e].user_id = consultations[c].user_id
        /\ consultations[e].feedback_score = NULL
        /\ Bucket(get_feedback_distribution(consultations, consultations[c].user_id),
                  consultations[c].feedback_score) = 1
        /\ reply[consultations[c].user_id] = THANKS

\* The weekly activity of a user whose consultations spread over the days of
\* the model, asked for under every local date the server's clock can show.
NextWeekly ==
    \/ Tick(MaxDay)
    \/ \E u \in Solo : start_command(u)
    \/ \E u \in Solo : ask_question(u, TRUE)
    \/ \E u \in Solo, text \in SelectionTexts : handle_category_selection(u, text)
    \/ \E u \in Solo, text \in ConversationTexts :
          handle_conversation(u, text, MaxStatTurns, 1)
    \/ \E t \in tasks : build_context(t)
    \/ \E t \in tasks : append_history(t, TRUE)
    \/ \E t \in tasks : save_step(t, TRUE)
    \/ \E t \in tasks : count_step(t, TRUE)
    \/ \E u \in Solo, l \in LocalDays(today), ok \in BOOLEAN : show_statistics(u, l, ok)

SpecWeekly == Init /\ [][NextWeekly]_vars

\* The feedback distribution of a user some of whose consultations are rated,
\* with the lowest or the highest score, over a store that already holds a
\* rated consultation of another user (the tables outlive the process, see
\* LegacyRows).
StatScores == {1, 5}

LegacyConsultations ==
    <<[user_id |-> 2, category |-> "medicine", content |-> "q0", response |-> AI_ANSWER,
       created_at |-> 0, resolved_at |-> 0, is_resolved |-> TRUE, feedback_score |-> 5]>>

InitStats ==
    /\ fsm = [u \in Users |-> IDLE]
    /\ data = [u \in Users |-> EmptyData]
    /\ lists = [u \in Users |-> [i \in ListIds |-> << >>]]
    /\ tasks = {}
    /\ users = [u \in Users |-> IF u = 2 THEN NewUser ELSE NoRow]
    /\ consultations = LegacyConsultations
    /\ keyboards = {}
    /\ callbacks = {}
    /\ today = 0
    /\ asked = 0
    /\ reply = [u \in Users |-> NO_REPLY]
    /\ stats = [u \in Users |-> NoStats]
    /\ starts = {}

NextStats ==
    \/ \E u \in Solo : start_command(u)
    \/ \E u \in Solo : ask_question(u, TRUE)
    \/ \E u \in Solo : handle_category_selection(u, "Umumiy maslahat")
    \/ \E u \in Solo, text \in {ASOSIY_MENYU, QuestionText(asked + 1)} :
          handle_conversation(u, text, MaxStatTurns, 1)
    \/ \E t \in tasks : build_context(t)
    \/ \E t \in tasks : append_history(t, TRUE)
    \/ \E t \in tasks : save_step(t, TRUE)
    \/ \E t \in tasks : count_step(t, TRUE)
    \/ \E c \in keyboards, s \in StatScores : tap(c, s, 1)
    \/ \E cb \in callbacks : process_feedback(cb, TRUE)
    \/ \E u \in Solo, ok \in BOOLEAN : show_statistics(u, today, ok)

SpecStats == InitStats /\ [][NextStats]_vars

\* C11: every weekly activity histogram built has exactly WEEK_DAYS entries, one
\* for each of the consecutive calendar days ending today (the day a
\* consultation created now is stamped with), each entry is the number of the
\* user's consultations created on that day, and so the entries sum to the
\* number of the user's consultations of those days.  Stated for a user who has
\* a consultation created today.
C11_WeeklyHistogram ==
    [][\A u \in Users :
          (/\ \E l \in LocalDays(today) : show_statistics(u, l, TRUE)
           /\ stats'[u].shown
           /\ ExchangesOn(u, today) # {})
          => LET weekly == stats'[u].weekly
                 week == {today - i : i \in 0..(WEEK_DAYS - 1)}
             IN /\ DOMAIN weekly = week
                /\ Cardinality(DOMAIN weekly) = WEEK_DAYS
                /\ \A d \in week : weekly[d] = Cardinality(ExchangesOn(u, d))
                /\ SumOver(weekly, DOMAIN weekly) =
                      Cardinality({i \in DOMAIN consultations :
                                      /\ consultations[i].user_id = u
                                      /\ consultations[i].created_at \in week})]_vars

\* a user's consultations that carry feedback score s
RatedWith(u, s) ==
    {i \in DOMAIN consultations :
        /\ consultations[i].user_id = u
        /\ consultations[i].is_resolved
        /\ consultations[i].feedback_score = s}

NextHang ==
    \/ \E u \in Solo : start_command(u)
    \/ \E u \in Solo : ask_question(u, TRUE)
    \/ \E u \in Solo, text \in SelectionTexts : handle_category_selection(u, text)
    \/ \E u \in Solo, text \in ConversationTexts :
          handle_conversation(u, text, MaxHangTurns, MaxInflight)
    \/ \E t \in tasks : build_context(t)
    \/ \E t \in tasks, ok \in BOOLEAN : append_history(t, ok)
    \/ \E t \in tasks : ai_hangs(t)
    \/ \E t \in tasks : save_step(t, TRUE)
    \/ \E t \in tasks : count_step(t, TRUE)

SpecHang ==
    /\ Init
    /\ [][NextHang]_vars
    /\ WF_vars(\E t \in tasks : build_context(t))
    /\ WF_vars(\E t \in tasks, ok \in BOOLEAN : append_history(t, ok))
    /\ WF_vars(\E t \in tasks : save_step(t, TRUE))
    /\ WF_vars(\E t \in tasks : count_step(t, TRUE))

\* the turn of the n-th free-text message has started and not finished
InFlight(n) == \E t \in tasks : t.question = QuestionText(n)

\* C13: every conversation turn that has started eventually finishes, with an
\* answer or the fallback message, also when its AI call never returns.
C13_TurnsFinish ==
    \A n \in 1..MaxHangTurns : InFlight(n) ~> ~InFlight(n)

\* A user whose stored daily counter stands at the quota (see LegacyRows) next
\* to a user who is new to the bot.
AtQuota ==
    [present |-> TRUE, consultation_count |-> MAX_DAILY_CONSULTATIONS,
     daily_consultation_count |-> MAX_DAILY_CONSULTATIONS, last_consultation_date |-> 0]

InitDenied ==
    /\ fsm = [u \in Users |-> IDLE]
    /\ data = [u \in Users |-> EmptyData]
    /\ lists = [u \in Users |-> [i \in ListIds |-> << >>]]
    /\ tasks = {}
    /\ users = [u \in Users |-> IF u \in Solo THEN AtQuota ELSE NoRow]
    /\ consultations = << >>
    /\ keyboards = {}
    /\ callbacks = {}
    /\ today = 0
    /\ asked = 0
    /\ reply = [u \in Users |-> NO_REPLY]
    /\ stats = [u \in Users |-> NoStats]
    /\ starts = {}

NextDenied ==
    \/ \E u \in Pair : start_command(u)
    \/ \E u \in Pair, ok \in BOOLEAN : ask_question(u, ok)
    \/ \E u \in Pair, text \in SelectionTexts : handle_category_selection(u, text)
    \/ \E u \in Pair, text \in ConversationTexts :
          handle_conversation(u, text, MaxLegacyTurns, 1)
    \/ \E t \in tasks : build_context(t)
    \/ \E t \in tasks : append_history(t, TRUE)
    \/ \E t \in tasks : save_step(t, TRUE)
    \/ \E t \in tasks : count_step(t, TRUE)

SpecDenied == InitDenied /\ [][NextDenied]_vars

\* C14: an 'ask a question' request that is denied because the quota is used up
\* is answered with the quota message and changes nothing: the user's FSM state,
\* category, history buffer and profile counters and the Consultation records
\* are what they were.
C14_DenialChangesNothing ==
    [][\A u \in Users :
          (/\ users[u].present
           /\ users[u].daily_consultation_count >= MAX_DAILY_CONSULTATIONS
           /\ ask_question(u, TRUE))
          => /\ reply'[u] = QUOTA_EXCEEDED
             /\ fsm'[u] = fsm[u]
             /\ data'[u] = data[u]
             /\ HistoryOf(data', lists', u) = History(u)
             /\ users'[u] = users[u]
             /\ consultations' = consultations]_vars

\* C14 witness: a user at the quota has been denied, in a store that holds a
\* Consultation record
C14_Denied ==
    \E u \in Users :
        /\ users[u].daily_consultation_count >= MAX_DAILY_CONSULTATIONS
        /\ reply[u] = QUOTA_EXCEEDED
        /\ fsm[u] = IDLE
        /\ consultations # << >>

\* Overlapping turns of one user, the counter update in its two steps.
NextCommit ==
    \/ \E u \in Solo : start_command(u)
    \/ \E u \in Solo : ask_question(u, TRUE)
    \/ \E u \in Solo, text \in SelectionTexts : handle_category_selection(u, text)
    \/ \E u \in Solo, text \in ConversationTexts :
          handle_conversation(u, text, MaxCommitTurns, MaxInflight)
    \/ \E t \in tasks : build_context(t)
    \/ \E t \in tasks : append_history(t, TRUE)
    \/ \E t \in tasks : save_step(t, TRUE)
    \/ \E t \in tasks, ok \in BOOLEAN : count_read(t, ok)
    \/ \E t \in tasks, ok \in BOOLEAN : count_commit(t, ok)
    \/ \E t \in tasks : except_step(t)

SpecCommit == Init /\ [][NextCommit]_vars

\* the counter commit of turn t overlaps another one of the same user: that one
\* has read the profile too and not written yet, or it has written since t read
Overlapped(t) ==
    \/ \E o \in TasksOf(tasks, t.user) \ {t} : o.pc = "commit"
    \/ users[t.user].consultation_count # t.db_user.consultation_count - 1

\* C15: no increment of overlapping counter commits is lost: each of them leaves
\* the persisted consultation_count and daily_consultation_count one greater
\* than it found them, so two of them leave each counter 2 greater.
C15_NoLostIncrement ==
    [][\A t \in tasks :
          (t.pc = "commit" /\ Overlapped(t) /\ count_commit(t, TRUE))
          => /\ users'[t.user].consultation_count = users[t.user].consultation_count + 1
             /\ users'[t.user].daily_consultation_count =
                    users[t.user].daily_consultation_count + 1]_vars

\* First contacts: /start commands of one user that overlap, add_or_update_user
\* in its two steps.
NextFirstContact ==
    \/ \E u \in Solo : start_read(u, MaxStarts)
    \/ \E s \in starts, ok \in BOOLEAN : start_commit(s, ok)
    \/ \E u \in Solo, ok \in BOOLEAN : ask_question(u, ok)
    \/ \E u \in Solo, text \in SelectionTexts : handle_category_selection(u, text)
    \/ \E u \in Solo, text \in ConversationTexts :
          handle_conversation(u, text, MaxFirstTurns, 1)
    \/ \E t \in tasks : build_context(t)
    \/ \E t \in tasks : append_history(t, TRUE)
    \/ \E t \in tasks : save_step(t, TRUE)
    \/ \E t \in tasks : count_step(t, TRUE)

SpecFirstContact == Init /\ [][NextFirstContact]_vars

\* C16: a first-contact profile creation (one that read no profile) ends without
\* an error and leaves exactly one profile of the user, with zero counters, also
\* when another creation for the same user read no profile before this one
\* wrote.  (Table users is a function of the user id: a second row of one user
\* is what the unique constraint refuses.)
C16_SafeFirstContact ==
    [][\A s \in starts :
          (~s.db_user.present /\ start_commit(s, TRUE))
          => /\ users'[s.user] = NewUser
             /\ reply'[s.user] = WELCOME]_vars

\* C17: an 'ask a question' message of a user in Idle who has no profile in the
\* store creates a profile with zero counters, is allowed, and moves the
\* session to CategorySelecting.
C17_QuotaCheckOnFirstContact ==
    [][\A u \in Users :
          (~users[u].present /\ fsm[u] = IDLE /\ ask_question(u, TRUE))
          => /\ users'[u] = NewUser
             /\ reply'[u] = CHOOSE_CATEGORY
             /\ fsm'[u] = CATEGORY_SELECTION]_vars

\* a store in which both users of Pair registered in an earlier run of the bot
InitPair ==
    /\ fsm = [u \in Users |-> IDLE]
    /\ data = [u \in Users |-> EmptyData]
    /\ lists = [u \in Users |-> [i \in ListIds |-> << >>]]
    /\ tasks = {}
    /\ users = [u \in Users |-> IF u \in Pair THEN NewUser ELSE NoRow]
    /\ consultations = << >>
    /\ keyboards = {}
    /\ callbacks = {}
    /\ today = 0
    /\ asked = 0
    /\ reply = [u \in Users |-> NO_REPLY]
    /\ stats = [u \in Users |-> NoStats]
    /\ starts = {}

\* Two users whose messages, turns, failures and ratings interleave.  Every turn
\* of the user of Solo fails at the AI call and again at the counter update (the
\* handler's except branch wipes that user's session); every turn of the other
\* user succeeds.
NextIsolation ==
    \/ \E u \in Pair : ask_question(u, TRUE)
    \/ \E u \in Pair : handle_category_selection(u, "Umumiy maslahat")
    \/ \E u \in Pair : handle_conversation(u, QuestionText(asked + 1), MaxPairTurns, 1)
    \/ \E t \in tasks : build_context(t)
    \/ \E t \in tasks : append_history(t, t.user \notin Solo)
    \/ \E t \in tasks : save_step(t, TRUE)
    \/ \E t \in tasks : count_step(t, t.user \notin Solo)
    \/ \E t \in tasks : except_step(t)
    \/ \E c \in keyboards : tap(c, 5, 1)
    \/ \E cb \in callbacks : process_feedback(cb, TRUE)

SpecIsolation == InitPair /\ [][NextIsolation]_vars

\* a handler step executed for user a: a message of a, a step of one of a's
\* turns, or a rating of one of a's consultations
StepOf(a) ==
    \/ start_command(a)
    \/ ask_question(a, TRUE)
    \/ handle_category_selection(a, "Umumiy maslahat")
    \/ handle_conversation(a, QuestionText(asked + 1), MaxPairTurns, 1)
    \/ \E t \in TasksOf(tasks, a) :
          \/ build_context(t)
          \/ \E ok \in BOOLEAN : append_history(t, ok) \/ count_step(t, ok)
          \/ save_step(t, TRUE)
          \/ except_step(t)
    \/ \E c \in keyboards : consultations[c].user_id = a /\ tap(c, 5, 1)
    \/ \E cb \in callbacks : consultations[cb.id].user_id = a /\ process_feedback(cb, TRUE)

\* the Consultation records of user b in table tbl, each with its id
RecordsOf(tbl, b) == {<<i, tbl[i]>> : i \in {j \in DOMAIN tbl : tbl[j].user_id = b}}

\* what the claim lists of user b is the same before and after the step
SameFor(b) ==
    /\ fsm'[b] = fsm[b]
    /\ data'[b].category = data[b].category
    /\ data'[b].category_name = data[b].category_name
    /\ HistoryOf(data', lists', b) = History(b)
    /\ users'[b] = users[b]
    /\ RecordsOf(consultations', b) = RecordsOf(consultations, b)

\* C18: a handler step executed for user a leaves every other user's FSM state,
\* selected category, history buffer, profile counters and Consultation records
\* unchanged: for distinct users a and b, every step leaves b's unchanged or is
\* not a step executed for a.
C18_CrossUserIsolation ==
    [][\A a, b \in Users : a # b => (SameFor(b) \/ ~StepOf(a))]_vars

\* C18 witness: a user whose AI call and then whose store write failed, whose
\* session was wiped by it, next to a user who is Conversing with a stored pair
\* and a Consultation record
C18_FailureNextDoor ==
    \E a, b \in Users :
        /\ a # b
        /\ reply[a] = GENERIC_ERROR
        /\ fsm[a] = IDLE
        /\ \E c \in DOMAIN consultations :
              consultations[c].user_id = a /\ consultations[c].response = AI_FALLBACK
        /\ fsm[b] = CONVERSATION
        /\ History(b) # << >>
        /\ RecordsOf(consultations, b) # {}

\* One user who changes the category while turns are still in flight; no call
\* fails.  The user sends 'Savol berish' from the main menu only, so a
\* conversation is left for the category keyboard by 'Kategoriyani o'zgartirish'.
RepickLabels == {"Umumiy maslahat", "Dori-darmonlar"}

NextRepick ==
    \/ \E u \in Solo : start_command(u)
    \/ \E u \in Solo : fsm[u] = IDLE /\ ask_question(u, TRUE)
    \/ \E u \in Solo, text \in RepickLabels : handle_category_selection(u, text)
    \/ \E u \in Solo, text \in {KATEGORIYANI_OZGARTIRISH, QuestionText(asked + 1)} :
          handle_conversation(u, text, MaxRepickTurns, MaxInflight)
    \/ \E t \in tasks : build_context(t)
    \/ \E t \in tasks : append_history(t, TRUE)
    \/ \E t \in tasks : save_step(t, TRUE)
    \/ \E t \in tasks : count_step(t, TRUE)

SpecRepick == Init /\ [][NextRepick]_vars

\* the categories under which question q of user u was asked: the category its
\* turn holds while it runs, and the category of its Consultation record
CategoriesOf(u, q) ==
    {t.category : t \in {x \in TasksOf(tasks, u) : x.question = q}}
    \cup {consultations[c].category :
             c \in {i \in DOMAIN consultations :
                       consultations[i].user_id = u /\ consultations[i].content = q}}

\* C19: every valid category selection stores the selected category, empties
\* the history buffer and moves to Conversing; and no prompt context of a turn
\* contains a pair of a conversation before the pick, whatever turns of the user
\* were in flight at the pick: every pair of a turn's context was asked under
\* the category the turn was asked under (a pair asked under another category
\* was asked before the pick that selected the turn's category).
C19_PickStartsFresh ==
    /\ [][\A u \in Users, label \in CategoryLabels :
             handle_category_selection(u, label)
             => /\ data'[u].category = categories[label]
                /\ data'[u].category_name = label
                /\ HistoryOf(data', lists', u) = << >>
                /\ fsm'[u] = CONVERSATION]_vars
    /\ [](\A t \in tasks : \A k \in 1..Len(t.context) :
             CategoriesOf(t.user, t.context[k].question) \subseteq {t.category})

\* One long conversation of a registered user, in which a question may be sent
\* while the turn before it is still running; no call fails.
NextContext ==
    \/ \E u \in Solo : fsm[u] = IDLE /\ ask_question(u, TRUE)
    \/ \E u \in Solo : handle_category_selection(u, "Dori-darmonlar")
    \/ \E u \in Solo :
          handle_conversation(u, QuestionText(asked + 1), MaxContextTurns, MaxInflight)
    \/ \E t \in tasks : build_context(t)
    \/ \E t \in tasks : append_history(t, TRUE)
    \/ \E t \in tasks : save_step(t, TRUE)
    \/ \E t \in tasks : count_step(t, TRUE)

SpecContext == InitPair /\ [][NextContext]_vars

\* the prompt context the turn asking question q passes to the AI call
PromptOf(ts, q) ==
    LET t == CHOOSE x \in ts : x.question = q
    IN context_string(t.category_name, t.context, t.question)

\* C20: the prompt context a turn builds is the category label, then exactly
\* the last min(3, n) of the n pairs of the conversation's history list the turn
\* holds, oldest first, then the new question last.
C20_ContextWindow ==
    [][\A t \in tasks :
          build_context(t)
          => LET h == lists[t.user][t.conversation_history]
                 n == Len(h)
                 m == IF n < 3 THEN n ELSE 3
                 p == PromptOf(tasks', t.question)
             IN /\ Len(p) = m + 2
                /\ p[1] = [part |-> "Kategoriya", text |-> t.category_name]
                /\ \A k \in 1..m :
                      p[1 + k] = [part |-> "Savol/Javob",
                                  question |-> h[n - m + k].question,
                                  answer |-> h[n - m + k].answer]
                /\ p[m + 2] = [part |-> "Yangi savol", text |-> t.question]]_vars

\* C20 witness: a turn at the AI call whose context holds three pairs while the
\* history list it holds has more
C20_WindowOfLongHistory ==
    \E t \in tasks :
        /\ t.pc = "ai"
        /\ Len(t.context) = 3
        /\ Len(lists[t.user][t.conversation_history]) > 3
        /\ t.category_name = data[t.user].category_name
        /\ History(t.user) = lists[t.user][t.conversation_history]

\* One user who returns to the main menu while turns are still in flight; no
\* call fails.  'Asosiy menyu' in Conversing is the only message of this
\* specification that is answered with BACK_TO_MENU; the user sends it once the
\* typing indicator of every question sent before has appeared, so a turn still
\* running then is suspended at the AI call or later.
NextMenu ==
    \/ \E u \in Solo : start_command(u)
    \/ \E u \in Solo : fsm[u] = IDLE /\ ask_question(u, TRUE)
    \/ \E u \in Solo : handle_category_selection(u, "Umumiy maslahat")
    \/ \E u \in Solo :
          handle_conversation(u, QuestionText(asked + 1), MaxMenuTurns, MaxInflight)
    \/ \E u \in Solo :
          /\ \A t \in TasksOf(tasks, u) : t.pc # "typing"
          /\ handle_conversation(u, ASOSIY_MENYU, MaxMenuTurns, MaxInflight)
    \/ \E t \in tasks : build_context(t)
    \/ \E t \in tasks : append_history(t, TRUE)
    \/ \E t \in tasks : save_step(t, TRUE)
    \/ \E t \in tasks : count_step(t, TRUE)

SpecMenu == Init /\ [][NextMenu]_vars

\* C21: handling 'main menu' in Conversing leaves the user in Idle with a
\* session that holds no category and no history, and for as long as the user
\* is in Idle and the answer to 'main menu' is the last message the bot sent
\* them (no message of the user has been handled since, so no category has been
\* selected) the session still holds no category and no history, whatever
\* turns of the user were suspended when 'main menu' was handled.
C21_MainMenuDestroysSession ==
    /\ [][\A u \in Users :
             (fsm[u] = CONVERSATION
              /\ handle_conversation(u, ASOSIY_MENYU, MaxMenuTurns, MaxInflight))
             => /\ fsm'[u] = IDLE
                /\ data'[u].category = ""
                /\ HistoryOf(data', lists', u) = << >>]_vars
    /\ [](\A u \in Users :
             (fsm[u] = IDLE /\ reply[u] = BACK_TO_MENU)
             => /\ data[u].category = ""
                /\ History(u) = << >>)

\* the fields of Consultation record c that no feedback submission writes
ContentOf(tbl, c) ==
    <<tbl[c].user_id, tbl[c].category, tbl[c].content, tbl[c].response, tbl[c].created_at>>

\* C22: in every state and for every Consultation, is_resolved is true exactly
\* when feedback_score is set, and resolved_at is set exactly when is_resolved
\* is true; and a feedback submission, whether its store write succeeds or
\* raises, adds and removes no record, leaves user_id, category, question,
\* answer and created_at of every record unchanged and leaves every record it
\* does not name unchanged.
C22_ResolvedIffRated ==
    /\ [](\A c \in DOMAIN consultations :
             /\ consultations[c].is_resolved <=> consultations[c].feedback_score # NULL
             /\ consultations[c].resolved_at # NULL <=> consultations[c].is_resolved)
    /\ [][\A cb \in callbacks :
             (\E ok \in BOOLEAN : process_feedback(cb, ok))
             => /\ DOMAIN consultations' = DOMAIN consultations
                /\ \A c \in DOMAIN consultations :
                      /\ ContentOf(consultations', c) = ContentOf(consultations, c)
                      /\ c # cb.id => consultations'[c] = consultations[c]]_vars

\* C22 witness: a record a submission has rated and resolved today, next to a
\* record whose rating keyboard is still on screen and which has no feedback
C22_RatedAndUnrated ==
    \E c, e \in DOMAIN consultations :
        /\ consultations[c].is_resolved
        /\ consultations[c].feedback_score \in Scores
        /\ consultations[c].resolved_at = today
        /\ c \notin keyboards
        /\ e \in keyboards
        /\ ~consultations[e].is_resolved
        /\ consultations[e].feedback_score = NULL
        /\ consultations[e].resolved_at = NULL

\* Every message of the three FSM handlers and of /start, sent in every state
\* and while a turn is running; every call of a turn may fail.
NextCategory ==
    \/ \E u \in Solo : start_command(u)
    \/ \E u \in Solo, ok \in BOOLEAN : ask_question(u, ok)
    \/ \E u \in Solo, text \in SelectionTexts : handle_category_selection(u, text)
    \/ \E u \in Solo, text \in ConversationTexts :
          handle_conversation(u, text, MaxCategoryTurns, MaxInflight)
    \/ \E t \in tasks : build_context(t)
    \/ \E t \in tasks, ok \in BOOLEAN : append_history(t, ok)
    \/ \E t \in tasks, ok \in BOOLEAN : save_step(t, ok)
    \/ \E t \in tasks, ok \in BOOLEAN : count_step(t, ok)
    \/ \E t \in tasks : except_step(t)

SpecCategory == Init /\ [][NextCategory]_vars

\* the category values of the categories dict
CategoryValues == {categories[label] : label \in CategoryLabels}

\* C23: in every state a user in Conversing has a stored category that is one of
\* general, medicine, hospitals, specialists; every Consultation record carries
\* one of these categories; and the 'no category' branch of the conversation
\* handler has not been taken: no user was last answered with its message.
C23_ConversingImpliesCategory ==
    /\ \A u \in Users : fsm[u] = CONVERSATION => data[u].category \in CategoryValues
    /\ \A c \in DOMAIN consultations : consultations[c].category \in CategoryValues
    /\ \A u \in Users : reply[u] # RESTART_ERROR

\* C23 witness: a user back in Conversing with a category after the session was
\* left while a turn was running: that turn's pair is in the store and the
\* turn itself, asked under the category, is still in flight
C23_ConversingAgain ==
    \E u \in Users :
        /\ fsm[u] = CONVERSATION
        /\ data[u].category \in CategoryValues
        /\ reply[u] = SESSION_STARTED
        /\ \E t \in TasksOf(tasks, u) :
              /\ t.pc = "count"
              /\ consultations[t.id].category = t.category
              /\ t.conversation_history # data[u].conversation_history

\* Two registered users in one chat: each asks, and each may rate the answers
\* given to either of them; no call fails.
NextOwnership ==
    \/ \E u \in Pair : fsm[u] = IDLE /\ ask_question(u, TRUE)
    \/ \E u \in Pair : handle_category_selection(u, "Umumiy maslahat")
    \/ \E u \in Pair : handle_conversation(u, QuestionText(asked + 1), MaxOwnerTurns, 1)
    \/ \E t \in tasks : build_context(t)
    \/ \E t \in tasks : append_history(t, TRUE)
    \/ \E t \in tasks : save_step(t, TRUE)
    \/ \E t \in tasks : count_step(t, TRUE)
    \/ \E c \in keyboards : tap(c, 5, 1)
    \/ \E a \in Pair, c \in keyboards : tap_of_other(a, c, 1, 1)
    \/ \E cb \in callbacks : process_feedback(cb, TRUE)

SpecOwnership == InitPair /\ [][NextOwnership]_vars

\* C24: a feedback submission issued by user A changes only Consultation
\* records whose user_id is A; a submission by A that names a consultation of
\* another user B leaves that consultation and B's feedback distribution
\* unchanged.
C24_FeedbackOwnership ==
    [][\A cb \in callbacks :
          process_feedback(cb, TRUE)
          => /\ \A c \in DOMAIN consultations :
                   consultations'[c] # consultations[c]
                   => consultations[c].user_id = cb.from_user
             /\ LET owner == consultations[cb.id].user_id
                IN owner # cb.from_user
                   => /\ consultations'[cb.id] = consultations[cb.id]
                      /\ get_feedback_distribution(consultations', owner)
                            = get_feedback_distribution(consultations, owner)]_vars

====
